---- MODULE Spec2Model ----
(***************************************************************************)
(* Model of the case-study creation form NowThenFrameScreen                *)
(* (src/app/casestudies/create/NowThenFrame.tsx).                          *)
(*                                                                         *)
(* The component keeps its form fields, its validation flags and its       *)
(* context-modal state in React state cells.  The validation is a passive  *)
(* effect (useEffect): React runs it after the render that follows a       *)
(* change of one of its dependencies, and once after the first render.     *)
(* Between that render and the effect the component is rendered with the   *)
(* new field contents and the flags of the previous validation; event      *)
(* handlers that only read state (handleSubmit) see that rendered state.   *)
(* React flushes a pending passive effect before it processes the next     *)
(* state update, so a state setter is only taken when no effect is         *)
(* pending.                                                                *)
(*                                                                         *)
(* Field contents are strings; the code reads them through .length only.   *)
(***************************************************************************)
EXTENDS Integers, Sequences, FiniteSets, TLC

(***************************************************************************)
(* Bounds of the model: how far around its threshold the length of a       *)
(* required field ranges, and the longest ROI / context text.              *)
(***************************************************************************)
Slack == 1
MaxRoiLen == 1
MaxContextLen == 1

(***************************************************************************)
(* MIN_CHARS: minimum character counts of the required fields.             *)
(***************************************************************************)
MIN_CHARS ==
    [headline |-> 30, initialSituation |-> 200, implementation |-> 300, results |-> 150]

RequiredFields == {"headline", "initialSituation", "implementation", "results"}

(***************************************************************************)
(* Text inputs: a string of n characters, and the strings a user types     *)
(* into each input within the bounds.                                      *)
(***************************************************************************)
RECURSIVE Rep(_)
Rep(n) ==
    IF n = 0 THEN ""
    ELSE LET half == Rep(n \div 2)
         IN  IF n % 2 = 0 THEN half \o half ELSE half \o half \o "x"

Lens(min) == {0} \cup { n \in (min - Slack)..(min + Slack) : n >= 0 }

Texts(f) == { Rep(n) : n \in Lens(MIN_CHARS[f]) }

RoiTexts == { Rep(n) : n \in 0..MaxRoiLen }

ContextTexts == { Rep(n) : n \in 0..MaxContextLen }

AlertTitles == {"none", "Success", "Incomplete inputs"}

VARIABLES
    headline,              \* useState('')
    initialSituation,      \* useState('')
    implementation,        \* useState('')
    results,               \* useState('')
    roi,                   \* useState('')
    contextModalVisible,   \* useState(false)
    contextForOlivia,      \* useState('')
    errors,                \* useState({headline: false, ...})
    isValid,               \* useState(false)
    effectPending,         \* the validation effect is scheduled and has not run yet
    alert,                 \* title of the alert presented last and not yet dismissed
    pushed                 \* routes handed to router.push

fields == <<headline, initialSituation, implementation, results>>
validation == <<errors, isValid>>
context == <<contextModalVisible, contextForOlivia>>
host == <<alert, pushed>>
vars == <<headline, initialSituation, implementation, results, roi,
          contextModalVisible, contextForOlivia, errors, isValid,
          effectPending, alert, pushed>>

(***************************************************************************)
(* The validation effect's computation.                                    *)
(***************************************************************************)
\* Faulty variant: the headline is compared as a maximum (> instead of <)
newErrorsHeadlineMax(h, i, m, r) ==
    [headline         |-> Len(h) > MIN_CHARS.headline,
     initialSituation |-> Len(i) < MIN_CHARS.initialSituation,
     implementation   |-> Len(m) < MIN_CHARS.implementation,
     results          |-> Len(r) < MIN_CHARS.results]

\* Faulty variant: off by one at the threshold (<= instead of <)
newErrorsOffByOne(h, i, m, r) ==
    [headline         |-> Len(h) <= MIN_CHARS.headline,
     initialSituation |-> Len(i) <= MIN_CHARS.initialSituation,
     implementation   |-> Len(m) <= MIN_CHARS.implementation,
     results          |-> Len(r) <= MIN_CHARS.results]

\* Faulty variant: initialSituation is compared with the implementation minimum
newErrorsWrongThreshold(h, i, m, r) ==
    [headline         |-> Len(h) < MIN_CHARS.headline,
     initialSituation |-> Len(i) < MIN_CHARS.implementation,
     implementation   |-> Len(m) < MIN_CHARS.implementation,
     results          |-> Len(r) < MIN_CHARS.results]

\* newErrors: a field is in error when its length is below its minimum
newErrors(h, i, m, r) ==
    [headline         |-> Len(h) < MIN_CHARS.headline,
     initialSituation |-> Len(i) < MIN_CHARS.initialSituation,
     implementation   |-> Len(m) < MIN_CHARS.implementation,
     results          |-> Len(r) < MIN_CHARS.results]

\* Faulty variant: the aggregate leaves the results flag out
noErrorSkipsResults(e) == ~(e.headline \/ e.initialSituation \/ e.implementation)

\* Faulty variant: the aggregate also requires a non-empty ROI
noErrorNeedsRoi(e) == ~(\E f \in DOMAIN e : e[f]) /\ roi # ""

\* !Object.values(newErrors).some(error => error)
noError(e) == ~(\E f \in DOMAIN e : e[f])

TypeOK ==
    /\ headline \in Texts("headline")
    /\ initialSituation \in Texts("initialSituation")
    /\ implementation \in Texts("implementation")
    /\ results \in Texts("results")
    /\ roi \in RoiTexts
    /\ contextModalVisible \in BOOLEAN
    /\ contextForOlivia \in ContextTexts
    /\ errors \in [RequiredFields -> BOOLEAN]
    /\ isValid \in BOOLEAN
    /\ effectPending \in BOOLEAN
    /\ alert \in AlertTitles
    /\ pushed \subseteq {"/"}

(***************************************************************************)
(* State after the first render: the initial values of the state cells;    *)
(* the validation effect is scheduled (effects run after mount).           *)
(***************************************************************************)
Init ==
    /\ headline = ""
    /\ initialSituation = ""
    /\ implementation = ""
    /\ results = ""
    /\ roi = ""
    /\ contextModalVisible = FALSE
    /\ contextForOlivia = ""
    /\ errors = [headline |-> FALSE, initialSituation |-> FALSE,
                 implementation |-> FALSE, results |-> FALSE]
    /\ isValid = FALSE
    /\ effectPending = TRUE
    /\ alert = "none"
    /\ pushed = {}

\* Faulty variant: the aggregate is taken from the errors of the previous
\* render instead of newErrors
ValidationEffectFromOldErrors ==
    /\ effectPending
    /\ errors' = newErrors(headline, initialSituation, implementation, results)
    /\ isValid' = ~(\E f \in DOMAIN errors : errors[f])
    /\ effectPending' = FALSE
    /\ UNCHANGED <<headline, initialSituation, implementation, results, roi,
                   contextModalVisible, contextForOlivia, alert, pushed>>

(***************************************************************************)
(* The validation effect: replaces errors and isValid by the values        *)
(* computed from the field contents of the render that scheduled it.       *)
(***************************************************************************)
ValidationEffect ==
    /\ effectPending
    /\ LET e == newErrors(headline, initialSituation, implementation, results)
       IN  /\ errors' = e
           /\ isValid' = noError(e)
    /\ effectPending' = FALSE
    /\ UNCHANGED <<fields, roi, context, host>>

(***************************************************************************)
(* onChangeText of the five inputs.  A setter called with the value the    *)
(* cell already holds does not re-render; a changed dependency of the      *)
(* effect (headline, initialSituation, implementation, results) schedules  *)
(* it.                                                                     *)
(***************************************************************************)
setHeadline(text) ==
    /\ ~effectPending
    /\ headline' = text
    /\ effectPending' = (text # headline)
    /\ UNCHANGED <<initialSituation, implementation, results, roi, context,
                   validation, host>>

setInitialSituation(text) ==
    /\ ~effectPending
    /\ initialSituation' = text
    /\ effectPending' = (text # initialSituation)
    /\ UNCHANGED <<headline, implementation, results, roi, context,
                   validation, host>>

setImplementation(text) ==
    /\ ~effectPending
    /\ implementation' = text
    /\ effectPending' = (text # implementation)
    /\ UNCHANGED <<headline, initialSituation, results, roi, context,
                   validation, host>>

\* Faulty variant: results is missing from the effect's dependency list
setResultsNotADependency(text) ==
    /\ ~effectPending
    /\ results' = text
    /\ UNCHANGED <<headline, initialSituation, implementation, roi,
                   contextModalVisible, contextForOlivia, errors, isValid,
                   effectPending, alert, pushed>>

setResults(text) ==
    /\ ~effectPending
    /\ results' = text
    /\ effectPending' = (text # results)
    /\ UNCHANGED <<headline, initialSituation, implementation, roi, context,
                   validation, host>>

\* roi is not a dependency of the validation effect
setRoi(text) ==
    /\ ~effectPending
    /\ roi' = text
    /\ UNCHANGED <<fields, context, validation, effectPending, host>>

\* Faulty variant: the test of isValid is inverted
handleSubmitInverted ==
    /\ IF ~isValid
          THEN alert' = "Success"
          ELSE alert' = "Incomplete inputs"
    /\ UNCHANGED <<headline, initialSituation, implementation, results, roi,
                   contextModalVisible, contextForOlivia, errors, isValid,
                   effectPending, pushed>>

(***************************************************************************)
(* handleSubmit reads the rendered isValid and presents an alert.          *)
(***************************************************************************)
handleSubmit ==
    /\ IF isValid
          THEN alert' = "Success"
          ELSE alert' = "Incomplete inputs"
    /\ UNCHANGED <<fields, roi, context, validation, effectPending, pushed>>

\* the OK button of the success alert: router.push('/')
pressOk ==
    /\ alert = "Success"
    /\ pushed' = pushed \cup {"/"}
    /\ alert' = "none"
    /\ UNCHANGED <<fields, roi, context, validation, effectPending>>

\* the default button of the 'Incomplete inputs' alert dismisses it
dismissAlert ==
    /\ alert = "Incomplete inputs"
    /\ alert' = "none"
    /\ UNCHANGED <<fields, roi, context, validation, effectPending, pushed>>

(***************************************************************************)
(* Context modal handlers.                                                 *)
(***************************************************************************)
handleContextForOlivia ==
    /\ ~effectPending
    /\ contextModalVisible' = TRUE
    /\ UNCHANGED <<fields, roi, contextForOlivia, validation, effectPending, host>>

\* Faulty variant: saving the context also closes the modal
handleContextSaveCloses(ctx) ==
    /\ ~effectPending
    /\ contextForOlivia' = ctx
    /\ contextModalVisible' = FALSE
    /\ UNCHANGED <<headline, initialSituation, implementation, results, roi,
                   errors, isValid, effectPending, alert, pushed>>

handleContextSave(ctx) ==
    /\ ~effectPending
    /\ contextForOlivia' = ctx
    /\ UNCHANGED <<fields, roi, contextModalVisible, validation, effectPending, host>>

handleContextClose ==
    /\ ~effectPending
    /\ contextModalVisible' = FALSE
    /\ UNCHANGED <<fields, roi, contextForOlivia, validation, effectPending, host>>

(***************************************************************************)
(* KeyboardToolbar actions of the current render.  The 'context' action    *)
(* carries no disabled property; an absent property reads as not disabled. *)
(***************************************************************************)
\* Faulty variant: the save action is disabled while the form is valid
toolbarActionsInverted ==
    << [id |-> "context", onPress |-> "handleContextForOlivia"],
       [id |-> "save", onPress |-> "handleSubmit", disabled |-> isValid] >>

toolbarActions ==
    << [id |-> "context", onPress |-> "handleContextForOlivia"],
       [id |-> "save", onPress |-> "handleSubmit", disabled |-> ~isValid] >>

(***************************************************************************)
(* Wizard1Page (src/app/wizard1.tsx): the answer input, the keyboard       *)
(* listeners registered by the mount effect, and the 'Weiter' button.      *)
(* The answer is a sequence of characters; " " and "\n" are whitespace.    *)
(* Keyboard events are raised by the platform at any time and reach the    *)
(* component only through a registered listener.                           *)
(***************************************************************************)
MaxAnswerLen == 2
MaxKeyboardHeight == 2

Whitespace == {" ", "\n"}

Chars == Whitespace \cup {"a"}

Answers == UNION { [1..n -> Chars] : n \in 0..MaxAnswerLen }

KeyboardHeights == 1..MaxKeyboardHeight

KeyboardEvents == {"keyboardDidShow", "keyboardDidHide"}

VARIABLES
    answer,           \* useState('')
    keyboardHeight,   \* useState(0)
    wizardMounted,    \* Wizard1Page is rendered
    listeners,        \* keyboard events with a registered listener of the page
    keyboard,         \* height announced by the platform's last keyboard event, 0 when hidden
    consoleLog        \* the last line handleNext logged, <<>> when none

wvars == <<answer, keyboardHeight, wizardMounted, listeners, keyboard, consoleLog>>

\* Faulty variant: the answer is not trimmed
trimNothing(s) == s

\* String.prototype.trim: strips leading and trailing whitespace
RECURSIVE trimStart(_)
trimStart(s) ==
    IF s # <<>> /\ Head(s) \in Whitespace THEN trimStart(Tail(s)) ELSE s

RECURSIVE trimEnd(_)
trimEnd(s) ==
    IF s # <<>> /\ s[Len(s)] \in Whitespace
        THEN trimEnd(SubSeq(s, 1, Len(s) - 1))
        ELSE s

trim(s) == trimEnd(trimStart(s))

\* const isValid = answer.trim().length > 0  (isValid names the form's state cell)
answerIsValid == Len(trim(answer)) > 0

\* disabled={!isValid} of the 'Weiter' TouchableOpacity
nextDisabled == ~answerIsValid

WizardTypeOK ==
    /\ answer \in Answers
    /\ keyboardHeight \in 0..MaxKeyboardHeight
    /\ wizardMounted \in BOOLEAN
    /\ listeners \subseteq KeyboardEvents
    /\ keyboard \in 0..MaxKeyboardHeight
    /\ consoleLog \in {<<>>} \cup { <<a>> : a \in Answers }

\* state after the first render; the mount effect has not run yet
WizardInit ==
    /\ answer = <<>>
    /\ keyboardHeight = 0
    /\ wizardMounted = TRUE
    /\ listeners = {}
    /\ keyboard = 0
    /\ consoleLog = <<>>

\* the mount effect registers both listeners
wizardMountEffect ==
    /\ wizardMounted
    /\ listeners = {}
    /\ listeners' = KeyboardEvents
    /\ UNCHANGED <<answer, keyboardHeight, wizardMounted, keyboard, consoleLog>>

\* Faulty variant: the cleanup removes the keyboardDidShow listener only
wizardUnmountKeepsHideListener ==
    /\ wizardMounted
    /\ listeners # {}
    /\ wizardMounted' = FALSE
    /\ listeners' = listeners \ {"keyboardDidShow"}
    /\ UNCHANGED <<answer, keyboardHeight, keyboard, consoleLog>>

\* unmount: the effect's cleanup removes both listeners (a pending mount
\* effect runs before the unmount is processed)
wizardUnmount ==
    /\ wizardMounted
    /\ listeners # {}
    /\ wizardMounted' = FALSE
    /\ listeners' = listeners \ KeyboardEvents
    /\ UNCHANGED <<answer, keyboardHeight, keyboard, consoleLog>>

\* the platform announces the keyboard with height h
keyboardDidShow(h) ==
    /\ keyboard' = h
    /\ keyboardHeight' =
          IF "keyboardDidShow" \in listeners THEN h ELSE keyboardHeight
    /\ UNCHANGED <<answer, wizardMounted, listeners, consoleLog>>

\* the platform announces that the keyboard is hidden
keyboardDidHide ==
    /\ keyboard' = 0
    /\ keyboardHeight' =
          IF "keyboardDidHide" \in listeners THEN 0 ELSE keyboardHeight
    /\ UNCHANGED <<answer, wizardMounted, listeners, consoleLog>>

\* onChangeText of the answer input
setAnswer(text) ==
    /\ wizardMounted
    /\ answer' = text
    /\ UNCHANGED <<keyboardHeight, wizardMounted, listeners, keyboard, consoleLog>>

\* handleNext: if (answer.trim()) console.log('Antwort:', answer)
handleNext ==
    /\ wizardMounted
    /\ consoleLog' = IF trim(answer) # <<>> THEN <<answer>> ELSE consoleLog
    /\ UNCHANGED <<answer, keyboardHeight, wizardMounted, listeners, keyboard>>

(***************************************************************************)
(* CaseStudiesTab (src/features/solvboxai/screens/CaseStudiesTab.tsx):     *)
(* what the tab renders from the values useCaseStudiesTab hands it.  An    *)
(* error is null, a thrown string, or an object that may carry a type and  *)
(* a shouldDisplay property.  An EmptyState is named by the translation    *)
(* keys of its title and message.                                          *)
(***************************************************************************)
MaxTiles == 2

ErrorTypes == {"network", "not_found", "server", "validation", "timeout"}

NullError == [kind |-> "null"]

Errors ==
    {NullError, [kind |-> "string"], [kind |-> "object"]}
    \cup { [kind |-> "object", type |-> t] : t \in ErrorTypes }
    \cup { [kind |-> "object", shouldDisplay |-> b] : b \in BOOLEAN }
    \cup { [kind |-> "object", type |-> t, shouldDisplay |-> b] :
              t \in ErrorTypes, b \in BOOLEAN }

VARIABLES
    tabIsLoading,   \* isLoading of useCaseStudiesTab
    tabError,       \* error of useCaseStudiesTab
    tabTiles,       \* number of filteredTiles of useCaseStudiesTab
    tabRendered     \* what the last render of CaseStudiesTab returned

tvars == <<tabIsLoading, tabError, tabTiles, tabRendered>>

EmptyState(title, message) == [kind |-> "EmptyState", title |-> title, message |-> message]

Undefined == [kind |-> "undefined"]

GenericError ==
    EmptyState("errors.genericErrorTitle", "solvboxai.errorMessages.casestudies")

\* Faulty variant: the type-specific message is chosen without looking at
\* shouldDisplay
renderErrorIgnoresShouldDisplay(err) ==
    IF err.kind = "null" THEN Undefined
    ELSE IF err.kind = "object" /\ "type" \in DOMAIN err
        THEN CASE err.type = "network" ->
                    EmptyState("errors.networkErrorTitle", "errors.networkErrorMessage")
               [] err.type = "not_found" ->
                    EmptyState("errors.notFoundTitle", "errors.notFoundMessage")
               [] err.type = "server" ->
                    EmptyState("errors.serverErrorTitle", "errors.serverErrorMessage")
               [] OTHER -> GenericError
        ELSE GenericError

\* renderError: the message for an error
renderError(err) ==
    IF err.kind = "null" THEN Undefined
    ELSE IF /\ err.kind = "object"
            /\ "type" \in DOMAIN err
            /\ "shouldDisplay" \in DOMAIN err
            /\ err.shouldDisplay
        THEN CASE err.type = "network" ->
                    EmptyState("errors.networkErrorTitle", "errors.networkErrorMessage")
               [] err.type = "not_found" ->
                    EmptyState("errors.notFoundTitle", "errors.notFoundMessage")
               [] err.type = "server" ->
                    EmptyState("errors.serverErrorTitle", "errors.serverErrorMessage")
               [] OTHER -> GenericError
        ELSE GenericError

\* const errorFallback = error ? renderError(error) : undefined
errorFallback(error) == IF error.kind # "null" THEN renderError(error) ELSE Undefined

\* the element tree CaseStudiesTab returns
CaseStudiesTabRender(isLoading, error, tiles) ==
    IF isLoading
        THEN [view |-> "loading",
              content |-> EmptyState("common.loading", "common.pleaseWait")]
        ELSE [view |-> "grid",
              tiles |-> tiles,
              errorFallback |-> errorFallback(error),
              emptyComponent |-> EmptyState("common.noResults",
                                            "solvboxai.emptyStates.casestudies")]

TabTypeOK ==
    /\ tabIsLoading \in BOOLEAN
    /\ tabError \in Errors
    /\ tabTiles \in 0..MaxTiles
    /\ tabRendered.view \in {"loading", "grid"}

\* the first render: nothing is loaded yet, the hook may or may not be loading
TabInit ==
    /\ tabIsLoading \in BOOLEAN
    /\ tabError = NullError
    /\ tabTiles = 0
    /\ tabRendered = CaseStudiesTabRender(tabIsLoading, tabError, tabTiles)

\* the hook returns a new isLoading and the tab renders again
hookSetsLoading(b) ==
    /\ tabIsLoading' = b
    /\ tabRendered' = CaseStudiesTabRender(b, tabError, tabTiles)
    /\ UNCHANGED <<tabError, tabTiles>>

\* the hook returns a new error and the tab renders again
hookSetsError(e) ==
    /\ tabError' = e
    /\ tabRendered' = CaseStudiesTabRender(tabIsLoading, e, tabTiles)
    /\ UNCHANGED <<tabIsLoading, tabTiles>>

\* the hook returns new tiles and the tab renders again
hookSetsTiles(n) ==
    /\ tabTiles' = n
    /\ tabRendered' = CaseStudiesTabRender(tabIsLoading, tabError, n)
    /\ UNCHANGED <<tabIsLoading, tabError>>

Next ==
    \/ ValidationEffect /\ UNCHANGED <<wvars, tvars>>
    \/ \E text \in Texts("headline") : setHeadline(text) /\ UNCHANGED <<wvars, tvars>>
    \/ \E text \in Texts("initialSituation") : setInitialSituation(text) /\ UNCHANGED <<wvars, tvars>>
    \/ \E text \in Texts("implementation") : setImplementation(text) /\ UNCHANGED <<wvars, tvars>>
    \/ \E text \in Texts("results") : setResults(text) /\ UNCHANGED <<wvars, tvars>>
    \/ \E text \in RoiTexts : setRoi(text) /\ UNCHANGED <<wvars, tvars>>
    \/ handleSubmit /\ UNCHANGED <<wvars, tvars>>
    \/ pressOk /\ UNCHANGED <<wvars, tvars>>
    \/ dismissAlert /\ UNCHANGED <<wvars, tvars>>
    \/ handleContextForOlivia /\ UNCHANGED <<wvars, tvars>>
    \/ \E ctx \in ContextTexts : handleContextSave(ctx) /\ UNCHANGED <<wvars, tvars>>
    \/ handleContextClose /\ UNCHANGED <<wvars, tvars>>

(***************************************************************************)
(* One specification per screen; the other screens' variables keep their   *)
(* first value.                                                            *)
(***************************************************************************)
allvars == <<vars, wvars, tvars>>

\* a first render of CaseStudiesTab, for the specifications of the other screens
TabIdle ==
    /\ tabIsLoading = TRUE
    /\ tabError = NullError
    /\ tabTiles = 0
    /\ tabRendered = CaseStudiesTabRender(TRUE, NullError, 0)

FormInit == Init /\ WizardInit /\ TabIdle

Spec == FormInit /\ [][Next]_allvars

WizardStart == WizardInit /\ Init /\ TabIdle

NextWizard ==
    \/ wizardMountEffect /\ UNCHANGED <<vars, tvars>>
    \/ wizardUnmount /\ UNCHANGED <<vars, tvars>>
    \/ \E h \in KeyboardHeights : keyboardDidShow(h) /\ UNCHANGED <<vars, tvars>>
    \/ keyboardDidHide /\ UNCHANGED <<vars, tvars>>
    \/ \E text \in Answers : setAnswer(text) /\ UNCHANGED <<vars, tvars>>
    \/ handleNext /\ UNCHANGED <<vars, tvars>>

SpecWizard == WizardStart /\ [][NextWizard]_allvars

TabStart == TabInit /\ Init /\ WizardInit

NextTab ==
    \/ \E b \in BOOLEAN : hookSetsLoading(b) /\ UNCHANGED <<vars, wvars>>
    \/ \E e \in Errors : hookSetsError(e) /\ UNCHANGED <<vars, wvars>>
    \/ \E n \in 0..MaxTiles : hookSetsTiles(n) /\ UNCHANGED <<vars, wvars>>

SpecTab == TabStart /\ [][NextTab]_allvars


(***************************************************************************)
(* Derived views of the state used by the properties.                      *)
(***************************************************************************)
\* the current content of each required field
Content ==
    [headline |-> headline, initialSituation |-> initialSituation,
     implementation |-> implementation, results |-> results]

\* field f's current content has at least its minimum length
MeetsMin(f) == Len(Content[f]) >= MIN_CHARS[f]

AllMeetMin == \A f \in RequiredFields : MeetsMin(f)

\* a step in which a notice is newly presented
Presents == alert' # alert /\ alert' # "none"

\* a step in which the validation effect runs
Recomputes == effectPending /\ ~effectPending'

(***************************************************************************)
(* C1: in every reachable state, the initial state and the state between   *)
(* a field edit and the validation effect included, each required field's  *)
(* satisfied-flag (~errors[f]) is true iff the field's current content has *)
(* at least its minimum length.                                            *)
(***************************************************************************)
C1_FlagsMatchContentInEveryState ==
    \A f \in RequiredFields : (~errors[f]) <=> MeetsMin(f)

(***************************************************************************)
(* C2: the aggregate isValid the validation step computes is the AND of    *)
(* the four required fields' satisfied-flags, i.e. it is true iff all four *)
(* required lengths reach their minimum, whatever the ROI content.         *)
(***************************************************************************)
C2_AggregateIsAndOfRequired ==
    ~effectPending =>
        /\ isValid <=> (\A f \in RequiredFields : ~errors[f])
        /\ isValid <=> /\ Len(headline) >= 30
                       /\ Len(initialSituation) >= 200
                       /\ Len(implementation) >= 300
                       /\ Len(results) >= 150

C2_Witness ==
    /\ ~effectPending
    /\ isValid
    /\ Len(headline) >= 30 /\ Len(initialSituation) >= 200
    /\ Len(implementation) >= 300 /\ Len(results) >= 150
    /\ roi = ""

(***************************************************************************)
(* C3: an edit of ROI leaves the per-field flags and isValid unchanged,    *)
(* and with ROI empty the validated aggregate is true whenever all four    *)
(* required fields meet their minimum.                                     *)
(***************************************************************************)
C3_RoiNeverAffectsValidation ==
    /\ [][roi' # roi => UNCHANGED <<errors, isValid>>]_vars
    /\ [](~effectPending /\ roi = "" /\ AllMeetMin => isValid)

C3_Witness ==
    /\ roi # ""
    /\ ~effectPending
    /\ AllMeetMin
    /\ isValid

(***************************************************************************)
(* C4 as stated: each change of the content of any field of the form, ROI  *)
(* included, is followed by one recomputation of the validation.           *)
(***************************************************************************)
C4_EveryFieldChangeRecomputes ==
    [][(fields' # fields \/ roi' # roi) => effectPending']_vars

(***************************************************************************)
(* C4 amended: each change of the content of one of the four required      *)
(* fields schedules exactly one recomputation; the recomputation is the    *)
(* only step that writes errors or isValid, it rewrites all four flags and *)
(* the aggregate together from the current contents, and it runs once per  *)
(* change.  A change of ROI schedules no recomputation.                    *)
(***************************************************************************)
C4_RequiredChangeRecomputesOnce ==
    [][ /\ fields' # fields => (~effectPending /\ effectPending')
        /\ roi' # roi => (effectPending' = effectPending)
        /\ validation' # validation => (Recomputes /\ fields' = fields)
        /\ Recomputes =>
              /\ \A f \in RequiredFields : errors'[f] = ~MeetsMin(f)
              /\ isValid' = AllMeetMin ]_vars

C4_Witness ==
    /\ ~effectPending
    /\ MeetsMin("results")
    /\ ~errors.results
    /\ ~MeetsMin("headline")
    /\ errors.headline

(***************************************************************************)
(* C5: a submission presents the 'Incomplete inputs' notice when isValid   *)
(* is false, and then neither the success confirmation nor the navigation  *)
(* to '/' happens; it presents the success confirmation when isValid is    *)
(* true.  It leaves the field contents, the flags and isValid unchanged.   *)
(* The navigation only follows the success confirmation.                   *)
(***************************************************************************)
C5_SubmitOutcome ==
    /\ [][Presents =>
            /\ alert' = (IF isValid THEN "Success" ELSE "Incomplete inputs")
            /\ pushed' = pushed
            /\ UNCHANGED <<fields, roi, errors, isValid>>]_vars
    /\ [][pushed' # pushed => (alert = "Success" /\ pushed' = pushed \cup {"/"})]_vars

C5_Witness ==
    /\ alert = "Incomplete inputs"
    /\ ~isValid
    /\ pushed = {}

(***************************************************************************)
(* C6: the success confirmation is presented only in a state where none of *)
(* the four required fields' current content is below its minimum, and a   *)
(* submission while a required field is too short presents the failure     *)
(* notice.                                                                 *)
(***************************************************************************)
C6_SuccessOnlyWhenFieldsMeetMin ==
    [][Presents =>
         /\ alert' = "Success" => AllMeetMin
         /\ ~AllMeetMin => alert' = "Incomplete inputs"]_vars

(***************************************************************************)
(* C7: an edit that does not shorten a required field never turns that     *)
(* field's recomputed satisfied-flag from true to false, and an edit that  *)
(* shortens no field never turns a true recomputed aggregate false.        *)
(***************************************************************************)
C7_Monotone ==
    [][~effectPending =>
         LET e == newErrors(headline', initialSituation', implementation', results')
         IN  /\ \A f \in RequiredFields :
                   (~errors[f] /\ Len(Content[f]') >= Len(Content[f])) => ~e[f]
             /\ (isValid /\ \A f \in RequiredFields :
                               Len(Content[f]') >= Len(Content[f])) => noError(e)
       ]_vars

C7_Witness ==
    /\ ~effectPending
    /\ Len(headline) > MIN_CHARS.headline
    /\ ~errors.headline
    /\ isValid

(***************************************************************************)
(* C8: after the validation has run, a required field whose length is      *)
(* exactly its threshold is satisfied (errors[f] false) and one of length  *)
(* threshold - 1 is not (errors[f] true).                                  *)
(***************************************************************************)
C8_Boundary ==
    ~effectPending =>
        \A f \in RequiredFields :
            /\ Len(Content[f]) = MIN_CHARS[f] => ~errors[f]
            /\ Len(Content[f]) = MIN_CHARS[f] - 1 => errors[f]

C8_Witness ==
    /\ ~effectPending
    /\ Len(headline) = 30 /\ ~errors.headline
    /\ Len(initialSituation) = 199 /\ errors.initialSituation
    /\ Len(implementation) = 300 /\ ~errors.implementation
    /\ Len(results) = 149 /\ errors.results

(***************************************************************************)
(* C9: with headline, implementation and results at or above their         *)
(* minimum and initialSituation of length 199, the recomputed              *)
(* initialSituation flag and the aggregate are both false; once            *)
(* initialSituation is extended to length 200, the recomputation makes the *)
(* flag and the aggregate true.                                            *)
(***************************************************************************)
OthersMeetMin == MeetsMin("headline") /\ MeetsMin("implementation") /\ MeetsMin("results")

C9_Scenario ==
    /\ []((~effectPending /\ OthersMeetMin /\ Len(initialSituation) = 199)
            => (errors.initialSituation /\ ~isValid))
    /\ [][(Recomputes /\ OthersMeetMin /\ Len(initialSituation) = 200)
            => (~errors'.initialSituation /\ isValid')]_vars

\* the extension to 200 characters has been typed and the flags are still
\* those of the shorter content
C9_Witness ==
    /\ effectPending
    /\ OthersMeetMin
    /\ Len(initialSituation) = 200
    /\ errors.initialSituation
    /\ ~errors.headline /\ ~errors.implementation /\ ~errors.results
    /\ ~isValid

(***************************************************************************)
(* C10: once the validation has run on the current contents, running it    *)
(* again on the unchanged contents yields the same four flags and the same *)
(* aggregate: the validated state is a fixed point of the recomputation.   *)
(***************************************************************************)
C10_Idempotent ==
    ~effectPending =>
        LET e == newErrors(headline, initialSituation, implementation, results)
        IN  /\ errors = e
            /\ isValid = noError(e)

C10_Witness ==
    /\ ~effectPending
    /\ errors.headline /\ ~errors.initialSituation
    /\ errors.implementation /\ ~errors.results
    /\ ~isValid

(***************************************************************************)
(* C11: in every rendered state the 'save' toolbar action is disabled      *)
(* exactly when isValid is false and enabled exactly when it is true; the  *)
(* 'context' action is never disabled.  Once the validation has run, save  *)
(* is therefore enabled exactly when all required fields meet their        *)
(* minimum.                                                                *)
(***************************************************************************)
\* an action without a disabled property is enabled
Disabled(action) == IF "disabled" \in DOMAIN action THEN action.disabled ELSE FALSE

ToolbarAction(id) == CHOOSE a \in {toolbarActions[k] : k \in DOMAIN toolbarActions} : a.id = id

C11_SaveDisabledIffInvalid ==
    /\ {toolbarActions[k].id : k \in DOMAIN toolbarActions} = {"context", "save"}
    /\ Disabled(ToolbarAction("save")) <=> ~isValid
    /\ ~Disabled(ToolbarAction("context"))
    /\ ~effectPending => (Disabled(ToolbarAction("save")) <=> ~AllMeetMin)

C11_Witness ==
    /\ ~effectPending
    /\ isValid
    /\ ~Disabled(ToolbarAction("save"))
    /\ ~Disabled(ToolbarAction("context"))
    /\ AllMeetMin

(***************************************************************************)
(* C14: handleContextForOlivia only sets the modal visible,                *)
(* handleContextSave only replaces the stored context (the modal stays as  *)
(* it is), handleContextClose only hides the modal (the stored context     *)
(* stays as it is); none of them changes a form field, a per-field flag or *)
(* isValid.                                                                *)
(***************************************************************************)
C14_ContextActionsIndependent ==
    [][ /\ handleContextForOlivia =>
              (contextModalVisible' = TRUE /\ UNCHANGED contextForOlivia)
        /\ \A ctx \in ContextTexts : handleContextSave(ctx) =>
              (contextForOlivia' = ctx /\ UNCHANGED contextModalVisible)
        /\ handleContextClose =>
              (contextModalVisible' = FALSE /\ UNCHANGED contextForOlivia)
        /\ context' # context =>
              UNCHANGED <<fields, roi, errors, isValid, effectPending, alert, pushed>>
        /\ ~(contextModalVisible' # contextModalVisible
              /\ contextForOlivia' # contextForOlivia) ]_vars

\* a context was saved while the modal was open, and the modal is still open
C14_Witness ==
    /\ contextModalVisible
    /\ contextForOlivia # ""
    /\ isValid

(***************************************************************************)
(* C12: the 'Weiter' button of Wizard1Page is enabled iff the answer has a *)
(* character that is not whitespace (an answer of whitespace only is       *)
(* invalid); handleNext logs the answer in that case only, and never       *)
(* changes answer or keyboardHeight.                                       *)
(***************************************************************************)
HasVisibleChar(s) == \E k \in 1..Len(s) : s[k] \notin Whitespace

C12_NextEnabledIffNonBlank ==
    /\ [](nextDisabled <=> ~HasVisibleChar(answer))
    /\ [][handleNext =>
            /\ UNCHANGED <<answer, keyboardHeight>>
            /\ consoleLog' = IF HasVisibleChar(answer) THEN <<answer>> ELSE consoleLog
         ]_wvars
    /\ [][consoleLog' # consoleLog =>
            (~nextDisabled /\ consoleLog' = <<answer>> /\ answer' = answer)]_wvars

\* a valid answer was logged, and the answer now holds whitespace only
C12_Witness ==
    /\ answer = <<" ", "\n">>
    /\ nextDisabled
    /\ consoleLog = << <<" ", "a">> >>

(***************************************************************************)
(* C13 as stated: while Wizard1Page is mounted, keyboardHeight is the      *)
(* height of the most recent keyboardDidShow if no keyboardDidHide         *)
(* followed it, and 0 otherwise.                                           *)
(***************************************************************************)
C13_HeightFollowsEveryEventWhileMounted ==
    wizardMounted => keyboardHeight = keyboard

(***************************************************************************)
(* C13 amended: while the listeners are registered (from the mount effect  *)
(* to the unmount), each keyboardDidShow sets keyboardHeight to the height *)
(* it carries and each keyboardDidHide sets it to 0, and nothing else      *)
(* changes it; it is 0 until the listeners are registered; after unmount   *)
(* no listener is left and no keyboard event changes the state; keyboard   *)
(* events never change answer.                                             *)
(***************************************************************************)
KeyboardEvent == keyboardDidHide \/ \E h \in KeyboardHeights : keyboardDidShow(h)

C13_HeightFollowsEventsWhileListening ==
    /\ []((wizardMounted /\ listeners = {}) => keyboardHeight = 0)
    /\ [](~wizardMounted => listeners = {})
    /\ [](listeners \in {{}, KeyboardEvents})
    /\ [][(listeners = KeyboardEvents /\ KeyboardEvent)
            => keyboardHeight' = keyboard']_wvars
    /\ [][keyboardHeight' # keyboardHeight
            => (listeners = KeyboardEvents /\ KeyboardEvent)]_wvars
    /\ [][~wizardMounted => UNCHANGED <<answer, keyboardHeight, consoleLog>>]_wvars
    /\ [][KeyboardEvent => answer' = answer]_wvars

\* a keyboardDidShow was heard while listening; after the unmount the
\* platform announced another height, which left keyboardHeight alone
C13_Witness ==
    /\ ~wizardMounted
    /\ listeners = {}
    /\ keyboardHeight = 2
    /\ keyboard = 1
    /\ answer # <<>>

(***************************************************************************)
(* C15: while isLoading is true CaseStudiesTab renders the loading         *)
(* placeholder and no tile grid, whatever error and tiles are; when not    *)
(* loading the grid gets an error fallback iff error is not null; the      *)
(* fallback is the type-specific message for an error with shouldDisplay   *)
(* true and type network, not_found or server, and the generic             *)
(* case-studies message for every other error.                             *)
(***************************************************************************)
TypeSpecific(e) ==
    /\ e.kind = "object"
    /\ "type" \in DOMAIN e /\ e.type \in {"network", "not_found", "server"}
    /\ "shouldDisplay" \in DOMAIN e /\ e.shouldDisplay = TRUE

TypeMessage ==
    [network   |-> <<"errors.networkErrorTitle", "errors.networkErrorMessage">>,
     not_found |-> <<"errors.notFoundTitle", "errors.notFoundMessage">>,
     server    |-> <<"errors.serverErrorTitle", "errors.serverErrorMessage">>]

====
